---- MODULE Spec2Model ----
(***************************************************************************)
(* Model of the AI file agent: FileProcessor (agent/file_processor.py),    *)
(* AIAnalyzer (agent/ai_analyzer.py), FileOrganizer (agent/organizer.py)   *)
(* and the coordinator FileAgentHandler / AIFileAgent (main.py).           *)
(*                                                                         *)
(* A file name is a record [base, nums, ext]: the text base, then one      *)
(* "_<n>" per element of nums, then ext.  "a.txt" is [a, <<>>, .txt] and   *)
(* "a_1.txt" is [a, <<1>>, .txt], so the name organize_file builds for a   *)
(* collision and a file that was dropped under that name are the same      *)
(* value.  A path is [dir, name]; dir is "input" or the name of a          *)
(* directory under the output root.                                        *)
(***************************************************************************)
EXTENDS Integers, Sequences, FiniteSets, TLC

(* ---------------- bounds ---------------- *)
\* number of files the environment creates in the input directory
MaxDrops == 3
\* number of files the environment removes from the input directory
MaxVanish == 1

(* ---------------- values ---------------- *)
\* Python values that a JSON document can put under "category"
Str(s) == [t |-> "str", v |-> s]
None == [t |-> "null"]

\* dict.get(key, default)
Get(d, k, default) == IF k \in DOMAIN d THEN d[k] ELSE default

Name(b, ns, e) == [base |-> b, nums |-> ns, ext |-> e]
PathOf(d, n) == [dir |-> d, name |-> n]

\* what the bytes of a file are to its decoder: well-formed data, a lone
\* newline, or bytes the decoder rejects
Bodies == {"text", "blank", "corrupt"}

\* the files the environment drops into the input directory: a.TXT,
\* a_1.TXT, photo.png and n.exe
DropFiles ==
  { [name |-> Name("a", <<>>, ".TXT"), body |-> "text"],
    [name |-> Name("a", <<>>, ".TXT"), body |-> "corrupt"],
    [name |-> Name("a", <<1>>, ".TXT"), body |-> "blank"],
    [name |-> Name("photo", <<>>, ".png"), body |-> "corrupt"],
    [name |-> Name("n", <<>>, ".exe"), body |-> "text"] }

\* the files analyze_content is tried on by itself
ClassifyFiles ==
  DropFiles
    \cup { [name |-> Name("photo", <<>>, ".png"), body |-> "text"],
           [name |-> Name("a", <<>>, ".TXT"), body |-> "blank"],
           [name |-> Name("r", <<>>, ".pdf"), body |-> "text"],
           [name |-> Name("r", <<>>, ".pdf"), body |-> "blank"],
           [name |-> Name("b", <<>>, ".CSV"), body |-> "text"],
           [name |-> Name("c", <<>>, ".json"), body |-> "text"],
           [name |-> Name("d", <<>>, ".docx"), body |-> "text"],
           [name |-> Name("e", <<>>, ".JPG"), body |-> "text"],
           [name |-> Name("f", <<>>, ".gif"), body |-> "text"],
           [name |-> Name("g", <<>>, ".bmp"), body |-> "corrupt"] }

\* str.lower() on the extensions that occur
lower(e) ==
  CASE e = ".CSV" -> ".csv"
    [] e = ".TXT" -> ".txt"
    [] e = ".PNG" -> ".png"
    [] e = ".JPG" -> ".jpg"
    [] OTHER -> e

\* str.replace('.', '') on a lowercased extension
replace_dot(e) ==
  CASE e = ".txt" -> "txt"
    [] e = ".pdf" -> "pdf"
    [] e = ".docx" -> "docx"
    [] e = ".csv" -> "csv"
    [] e = ".json" -> "json"
    [] e = ".jpg" -> "jpg"
    [] e = ".jpeg" -> "jpeg"
    [] e = ".png" -> "png"
    [] e = ".gif" -> "gif"
    [] e = ".bmp" -> "bmp"
    [] e = ".xlsx" -> "xlsx"
    [] OTHER -> e

(* ---------------- FileProcessor ---------------- *)
supported_formats ==
  {".txt", ".pdf", ".docx", ".csv", ".json", ".jpg", ".jpeg", ".png", ".gif", ".bmp"}

image_formats == {".jpg", ".jpeg", ".png", ".gif", ".bmp"}

can_process(file_path) == lower(file_path.name.ext) \in supported_formats

\* the record extract_content starts from, once stat() has succeeded
base_result(file_path) ==
  [file_path |-> file_path, file_name |-> file_path.name,
   file_type |-> lower(file_path.name.ext),
   content |-> "", metadata |-> {}]

\* _read_image_file: never raises; a decoding error is kept in the metadata.
\* metadata is modelled by the set of its keys.
read_image_file(file_path, body) ==
  IF body = "text"
    THEN [content |-> "Image file", metadata |-> {"width", "height", "format", "mode", "file_size"}]
    ELSE [content |-> "Image file (Error reading metadata)",
          metadata |-> {"error"}]

\* The readers of the other types: the text they return, or "raise"
read_other(extension, body) ==
  CASE body = "corrupt" -> [raise |-> TRUE]
    [] body = "blank" /\ extension \in {".csv", ".json"} -> [raise |-> TRUE]
    [] body = "blank" -> [raise |-> FALSE, content |-> "\n", metadata |-> {}]
    [] extension = ".csv" ->
         [raise |-> FALSE, content |-> "CSV file", metadata |-> {"rows", "columns", "data_types"}]
    [] OTHER -> [raise |-> FALSE, content |-> "text", metadata |-> {}]

\* extract_content with a decoding error of an image handled as that of any
\* other type: the error field of the outer record is set
extract_content_image_error(fs, file_path) ==
  LET extension == lower(file_path.name.ext)
      result == base_result(file_path)
  IN  IF file_path \notin DOMAIN fs
        THEN [raised |-> TRUE, error |-> "FileNotFoundError"]
        ELSE LET r == read_other(extension, fs[file_path].body) IN
             IF r.raise
               THEN [raised |-> FALSE,
                     value |-> [file_path |-> result.file_path,
                                file_name |-> result.file_name,
                                file_type |-> result.file_type,
                                content |-> result.content,
                                metadata |-> result.metadata,
                                error |-> "decode error"]]
               ELSE [raised |-> FALSE,
                     value |-> [result EXCEPT !.content = r.content,
                                              !.metadata = r.metadata]]

\* extract_content; fs is the file system, a function from paths to files.
\* Gives [raised |-> TRUE] when the call raises, else the returned dict in
\* value.
extract_content(fs, file_path) ==
  LET extension == lower(file_path.name.ext)
      result == base_result(file_path)
  IN  IF file_path \notin DOMAIN fs
        THEN [raised |-> TRUE, error |-> "FileNotFoundError"]
        ELSE LET body == fs[file_path].body IN
             IF extension \in image_formats
               THEN LET r == read_image_file(file_path, body) IN
                    [raised |-> FALSE,
                     value |-> [result EXCEPT !.content = r.content,
                                              !.metadata = r.metadata]]
               ELSE LET r == read_other(extension, body) IN
                    IF r.raise
                      THEN [raised |-> FALSE,
                            value |-> [file_path |-> result.file_path,
                                       file_name |-> result.file_name,
                                       file_type |-> result.file_type,
                                       content |-> result.content,
                                       metadata |-> result.metadata,
                                       error |-> "decode error"]]
                      ELSE [raised |-> FALSE,
                            value |-> [result EXCEPT !.content = r.content,
                                                     !.metadata = r.metadata]]

(* ---------------- AIAnalyzer ---------------- *)
\* str.strip() on the contents that occur
strip(content) == IF content \in {"", "\n", " "} THEN "" ELSE content

\* response[:100] + '...' if len(response) > 100 else response, on a text
\* given as a sequence of characters
SummaryLimit == 100
ellipsize(response) ==
  IF Len(response) > SummaryLimit
    THEN SubSeq(response, 1, SummaryLimit) \o <<".", ".", ".">>
    ELSE response

ShortText == <<"o", "k">>
LongText == [i \in 1..(SummaryLimit + 1) |-> "x"]

\* the objects a well-formed answer of the remote model can be
RemoteObject(c) ==
  [category |-> c, summary |-> <<"s">>, tags |-> <<"t1", "t2", "t3">>,
   priority |-> "high", action_needed |-> "act"]

\* the outcomes of openai.ChatCompletion.create the pipeline is run with
PipelineOutcomes ==
  { [kind |-> "transport_failure"] }
    \cup { [kind |-> "json_object", obj |-> RemoteObject(c)] :
             c \in {Str("work"), Str("finance"), None} }

\* the outcomes analyze_content is tried on by itself
RemoteOutcomes ==
  PipelineOutcomes
    \cup { [kind |-> "json_non_object"] }
    \cup { [kind |-> "non_json", text |-> t] : t \in {ShortText, LongText} }
    \cup { [kind |-> "json_object", obj |-> RemoteObject(c)] :
             c \in {Str("images"), Str("other")} }
    \cup { [kind |-> "json_object",
            obj |-> [summary |-> <<"s">>, tags |-> <<"t1", "t2", "t3">>,
                     priority |-> "low", action_needed |-> "act"]] }

\* _create_default_analysis with the data branch taken for .csv alone
create_default_analysis_csv_only(file_name, file_type, error_msg) ==
  LET branch ==
        CASE file_type \in {".jpg", ".jpeg", ".png", ".gif", ".bmp"} ->
               [category |-> "images", summary |-> "Image file",
                tags |-> <<"image", "visual", replace_dot(file_type)>>,
                action |-> "Review and organize in image collection"]
          [] file_type = ".pdf" ->
               [category |-> "document", summary |-> "PDF document",
                tags |-> <<"pdf", "document", "text">>,
                action |-> "Review document content and file appropriately"]
          [] file_type = ".csv" ->
               [category |-> "data", summary |-> "Data file",
                tags |-> <<"data", "spreadsheet", replace_dot(file_type)>>,
                action |-> "Analyze data structure and content"]
          [] OTHER ->
               [category |-> "other", summary |-> "File",
                tags |-> <<replace_dot(file_type), "needs_review">>,
                action |-> "Manual review recommended"]
  IN  [category |-> Str(branch.category),
       summary |-> <<branch.summary, file_name>>,
       tags |-> branch.tags,
       priority |-> "medium",
       action_needed |-> branch.action,
       note |-> <<"Default analysis used due to: ", error_msg>>]

create_default_analysis(file_name, file_type, error_msg) ==
  LET branch ==
        CASE file_type \in {".jpg", ".jpeg", ".png", ".gif", ".bmp"} ->
               [category |-> "images", summary |-> "Image file",
                tags |-> <<"image", "visual", replace_dot(file_type)>>,
                action |-> "Review and organize in image collection"]
          [] file_type = ".pdf" ->
               [category |-> "document", summary |-> "PDF document",
                tags |-> <<"pdf", "document", "text">>,
                action |-> "Review document content and file appropriately"]
          [] file_type \in {".csv", ".xlsx"} ->
               [category |-> "data", summary |-> "Data file",
                tags |-> <<"data", "spreadsheet", replace_dot(file_type)>>,
                action |-> "Analyze data structure and content"]
          [] OTHER ->
               [category |-> "other", summary |-> "File",
                tags |-> <<replace_dot(file_type), "needs_review">>,
                action |-> "Manual review recommended"]
  IN  [category |-> Str(branch.category),
       summary |-> <<branch.summary, file_name>>,
       tags |-> branch.tags,
       priority |-> "medium",
       action_needed |-> branch.action,
       note |-> <<"Default analysis used due to: ", error_msg>>]

\* _parse_ai_response on a text that json.loads rejects
parse_ai_response(response) ==
  [category |-> Str("other"), summary |-> ellipsize(response),
   tags |-> <<"parsed_response">>, priority |-> "medium",
   action_needed |-> "Review AI response parsing"]

\* analyze_content with the use of the parsed answer after the try block:
\* an answer that is not an object raises AttributeError to the caller
analyze_content_unguarded(file_data, outcome) ==
  LET file_name == file_data.file_name
      file_type == file_data.file_type
  IN  IF strip(file_data.content) = ""
        THEN [raised |-> FALSE, called |-> FALSE,
              value |-> create_default_analysis(file_name, file_type,
                                                "No content extracted")]
        ELSE CASE outcome.kind = "transport_failure" ->
                    [raised |-> FALSE, called |-> TRUE,
                     value |-> create_default_analysis(file_name, file_type,
                                                       "APIConnectionError")]
               [] outcome.kind = "non_json" ->
                    [raised |-> FALSE, called |-> TRUE,
                     value |-> parse_ai_response(outcome.text)]
               [] outcome.kind = "json_non_object" ->
                    [raised |-> TRUE, called |-> TRUE]
               [] OTHER ->
                    [raised |-> FALSE, called |-> TRUE, value |-> outcome.obj]

\* analyze_content, given the outcome the remote call would have.  called
\* tells whether the remote call was made.
analyze_content(file_data, outcome) ==
  LET file_name == file_data.file_name
      file_type == file_data.file_type
  IN  IF strip(file_data.content) = ""
        THEN [raised |-> FALSE, called |-> FALSE,
              value |-> create_default_analysis(file_name, file_type,
                                                "No content extracted")]
        ELSE CASE outcome.kind = "transport_failure" ->
                    [raised |-> FALSE, called |-> TRUE,
                     value |-> create_default_analysis(file_name, file_type,
                                                       "APIConnectionError")]
               [] outcome.kind = "non_json" ->
                    [raised |-> FALSE, called |-> TRUE,
                     value |-> parse_ai_response(outcome.text)]
               [] outcome.kind = "json_non_object" ->
                    \* analysis.get raises AttributeError inside the try
                    [raised |-> FALSE, called |-> TRUE,
                     value |-> create_default_analysis(file_name, file_type,
                                                       "AttributeError")]
               [] OTHER ->
                    [raised |-> FALSE, called |-> TRUE, value |-> outcome.obj]

(* ---------------- FileOrganizer ---------------- *)
\* the categories the prompt of analyze_content lists
Categories == {"document", "data", "report", "personal", "work", "images", "other"}

\* the directories setup_directories creates under the output root
setup_directories(dirs) ==
  dirs \cup {"documents", "data", "reports", "personal", "work", "other"}
       \cup {"reports"}

\* f"{stem}_{counter}{suffix}"
Suffixed(source_name, counter) ==
  [base |-> source_name.base, nums |-> Append(source_name.nums, counter),
   ext |-> source_name.ext]

\* Path.exists()
exists(fs, path) == path \in DOMAIN fs

\* free_dest with "if dest_path.exists()" in place of the loop
free_dest_once(fs, dest_dir, source_name, dest_name, counter) ==
  IF exists(fs, PathOf(dest_dir, dest_name))
    THEN Suffixed(source_name, counter)
    ELSE dest_name

\* the loop "while dest_path.exists()" of organize_file
RECURSIVE free_dest(_, _, _, _, _)
free_dest(fs, dest_dir, source_name, dest_name, counter) ==
  IF exists(fs, PathOf(dest_dir, dest_name))
    THEN free_dest(fs, dest_dir, source_name,
                   Suffixed(source_name, counter), counter + 1)
    ELSE dest_name

\* shutil.move(src, dst) for a regular file: the error it raises, or "ok"
move_error(fs, dirs, src, dst) ==
  CASE src \notin DOMAIN fs -> [errno |-> "ENOENT", filename |-> src]
    [] dst.dir \notin dirs -> [errno |-> "ENOENT", filename |-> dst]
    [] OTHER -> [errno |-> "ok"]

\* shutil.copy in place of shutil.move: the source stays where it was
moved_copy(fs, src, dst) ==
  [p \in DOMAIN fs \cup {dst} |-> IF p = dst THEN fs[src] ELSE fs[p]]

\* shutil.move(str(source_path), str(dest_path)), once it is known to succeed
moved(fs, src, dst) ==
  [p \in (DOMAIN fs \ {src}) \cup {dst} |-> IF p = dst THEN fs[src] ELSE fs[p]]

\* processing_log.insert(0, ...) in place of processing_log.append(...)
log_append_front(log, entry) == <<entry>> \o log

\* self.processing_log.append({...})
log_append(log, entry) == Append(log, entry)

\* organize_file with the log entry appended before the move is tried
organize_file_logs_first(fs, dirs, log, file_data, analysis) ==
  LET source_path == file_data.file_path
      category == Get(analysis, "category", Str("other"))
  IN  IF category.t # "str"
        THEN [raised |-> TRUE, error |-> "TypeError"]
        ELSE
          LET dest_dir == category.v
              dest_path == PathOf(dest_dir,
                                  free_dest(fs, dest_dir, source_path.name,
                                            source_path.name, 1))
              err == move_error(fs, dirs, source_path, dest_path)
              result == [original_path |-> source_path,
                         new_path |-> dest_path,
                         category |-> category,
                         status |-> "success"]
              logged == Append(log, [file |-> source_path.name,
                                     analysis |-> analysis,
                                     organization |-> result])
          IN  IF err.errno = "ok"
                THEN [raised |-> FALSE,
                      fs |-> moved(fs, source_path, dest_path),
                      log |-> logged, result |-> result]
                ELSE [raised |-> FALSE, fs |-> fs, log |-> logged,
                      result |-> [original_path |-> source_path,
                                  error |-> err,
                                  status |-> "failed"]]

\* organize_file: [raised |-> TRUE] when an exception leaves the call, else
\* the file system and the log it leaves and the dict it returns.  The
\* timestamp field is left out.
organize_file(fs, dirs, log, file_data, analysis) ==
  LET source_path == file_data.file_path
      category == Get(analysis, "category", Str("other"))
  IN  IF category.t # "str"
        THEN [raised |-> TRUE, error |-> "TypeError"]
        ELSE
          LET dest_dir == category.v
              dest_path == PathOf(dest_dir,
                                  free_dest(fs, dest_dir, source_path.name,
                                            source_path.name, 1))
              err == move_error(fs, dirs, source_path, dest_path)
          IN  IF err.errno = "ok"
                THEN LET result == [original_path |-> source_path,
                                    new_path |-> dest_path,
                                    category |-> category,
                                    status |-> "success"]
                     IN  [raised |-> FALSE,
                          fs |-> moved(fs, source_path, dest_path),
                          log |-> log_append(log,
                                             [file |-> source_path.name,
                                              analysis |-> analysis,
                                              organization |-> result]),
                          result |-> result]
                ELSE [raised |-> FALSE, fs |-> fs, log |-> log,
                      result |-> [original_path |-> source_path,
                                  error |-> err,
                                  status |-> "failed"]]

\* count_categories with "= 1" in place of "get(category, 0) + 1"
RECURSIVE count_categories_reset(_, _)
count_categories_reset(log, n) ==
  IF n = 0
    THEN <<>>
    ELSE LET counts == count_categories_reset(log, n - 1)
             category == Get(log[n].analysis, "category", Str("other")).v
         IN  [c \in DOMAIN counts \cup {category} |->
                IF c = category THEN 1 ELSE counts[c]]

\* the loop "for entry in self.processing_log" of generate_report: the
\* mapping from category to count, after the first n entries
RECURSIVE count_categories(_, _)
count_categories(log, n) ==
  IF n = 0
    THEN <<>>
    ELSE LET counts == count_categories(log, n - 1)
             category == Get(log[n].analysis, "category", Str("other")).v
         IN  [c \in DOMAIN counts \cup {category} |->
                IF c = category THEN Get(counts, c, 0) + 1 ELSE counts[c]]

\* what generate_report gives on an empty log: the message, and no file
NoReport == [written |-> FALSE, summary |-> <<"No files processed yet.">>]

\* generate_report without the check "if not self.processing_log"
generate_report_unchecked(log) ==
  [written |-> TRUE,
   summary |-> <<"FILE PROCESSING REPORT", Len(log),
                 count_categories(log, Len(log))>>,
   total_files |-> Len(log),
   categories |-> count_categories(log, Len(log)),
   files |-> log]

\* generate_report: the report it builds and writes, NoReport on an empty log
generate_report(log) ==
  IF log = <<>>
    THEN NoReport
    ELSE [written |-> TRUE,
          summary |-> <<"FILE PROCESSING REPORT", Len(log),
                        count_categories(log, Len(log))>>,
          total_files |-> Len(log),
          categories |-> count_categories(log, Len(log)),
          files |-> log]

(* ---------------- state ---------------- *)
\* the thread of start_monitoring and the thread of the watchdog observer;
\* each runs process_file with locals of its own
Threads == {"main", "observer"}

VARIABLES
  fs,                  \* the file system: path -> [id, body]
  dirs,                \* the directories under the output root
  processing_log,      \* FileOrganizer.processing_log
  main,                \* where start_monitoring is
  observer,            \* the watchdog observer thread
  files,               \* process_existing_files: the files still to process
  listed,              \* process_existing_files: the set of files it found
  events,              \* creation events the observer has not dispatched
  pc,                  \* per thread: where process_file is
  file_path,           \* per thread: the argument of process_file
  file_data,           \* per thread: what extract_content returned
  analysis,            \* per thread: what analyze_content returned
  organization_result, \* per thread: what organize_file returned
  stages,              \* per thread: the stages process_file went through
  remote_calls,        \* per thread: remote calls made for the current file
  response,            \* per thread: the outcome of the remote call, if made
  entered,             \* the calls of process_file so far: thread, file
  report,              \* what generate_report built last
  report_calls,        \* the calls of generate_report so far
  drops,               \* files created by the environment so far
  vanishes             \* files removed by the environment so far

pipeline == <<pc, file_path, file_data, analysis, organization_result,
              stages, remote_calls, response>>

vars == <<fs, dirs, processing_log, main, observer, files, listed, events,
          pipeline, entered, report, report_calls, drops, vanishes>>

Nil == [nil |-> TRUE]

\* AIFileAgent() followed by the call of start_monitoring: the output tree
\* is fresh, the input directory is empty
Init ==
  /\ fs = <<>>
  /\ dirs = setup_directories({})
  /\ processing_log = <<>>
  /\ main = "start"
  /\ observer = "unstarted"
  /\ files = <<>>
  /\ listed = {}
  /\ events = <<>>
  /\ pc = [t \in Threads |-> "idle"]
  /\ file_path = [t \in Threads |-> Nil]
  /\ file_data = [t \in Threads |-> Nil]
  /\ analysis = [t \in Threads |-> Nil]
  /\ organization_result = [t \in Threads |-> Nil]
  /\ stages = [t \in Threads |-> <<>>]
  /\ remote_calls = [t \in Threads |-> 0]
  /\ response = [t \in Threads |-> Nil]
  /\ entered = {}
  /\ report = Nil
  /\ report_calls = 0
  /\ drops = 0
  /\ vanishes = 0

(* ---------------- environment ---------------- *)
\* start_monitoring has ended, by return or by an exception
Ended == main \in {"crashed", "interrupted", "stopping", "stopped"}

\* a file is created in the input directory; a running observer queues the
\* creation event
Drop(name, body) ==
  /\ drops < MaxDrops
  /\ ~Ended
  /\ PathOf("input", name) \notin DOMAIN fs
  /\ fs' = [p \in DOMAIN fs \cup {PathOf("input", name)} |->
              IF p = PathOf("input", name)
                THEN [id |-> drops + 1, body |-> body] ELSE fs[p]]
  /\ drops' = drops + 1
  /\ events' = IF observer = "running"
                 THEN Append(events, PathOf("input", name)) ELSE events
  /\ UNCHANGED <<dirs, processing_log, main, observer, files, listed,
                 pipeline, entered, report, report_calls, vanishes>>

\* a file of the input directory is removed by something else
Vanish(path) ==
  /\ vanishes < MaxVanish
  /\ path \in DOMAIN fs
  /\ path.dir = "input"
  /\ fs' = [p \in DOMAIN fs \ {path} |-> fs[p]]
  /\ vanishes' = vanishes + 1
  /\ UNCHANGED <<dirs, processing_log, main, observer, files, listed, events,
                 pipeline, entered, report, report_calls, drops>>

(* ---------------- process_existing_files ---------------- *)
Orderings(S) ==
  { s \in [1..Cardinality(S) -> S] :
      \A i, j \in 1..Cardinality(S) : i # j => s[i] # s[j] }

\* start_monitoring with observer.start() ahead of process_existing_files
process_existing_files_after_start ==
  /\ main = "start"
  /\ LET present == { p \in DOMAIN fs : p.dir = "input" } IN
       /\ IF present = {}
            THEN /\ files' = <<>>
                 /\ main' = "watch"
            ELSE /\ files' \in Orderings(present)
                 /\ main' = "drain"
       /\ listed' = present
  /\ observer' = "running"
  /\ UNCHANGED <<fs, dirs, processing_log, events, pipeline, entered, report,
                 report_calls, drops, vanishes>>

\* files = [f for f in input_path.iterdir() if f.is_file()], in the order
\* the directory gives; with no file it returns at once, without a report
process_existing_files ==
  /\ main = "start"
  /\ LET present == { p \in DOMAIN fs : p.dir = "input" } IN
       /\ IF present = {}
            THEN /\ files' = <<>>
                 /\ main' = "watch"
                 /\ observer' = "running"
            ELSE /\ files' \in Orderings(present)
                 /\ main' = "drain"
                 /\ UNCHANGED observer
       /\ listed' = present
  /\ UNCHANGED <<fs, dirs, processing_log, events, pipeline, entered, report,
                 report_calls, drops, vanishes>>

(* ---------------- process_file ---------------- *)
\* Step 1: the call in thread t, and the check of the file type
begin_process_file(t, path) ==
  /\ file_path' = [file_path EXCEPT ![t] = path]
  /\ file_data' = [file_data EXCEPT ![t] = Nil]
  /\ analysis' = [analysis EXCEPT ![t] = Nil]
  /\ organization_result' = [organization_result EXCEPT ![t] = Nil]
  /\ remote_calls' = [remote_calls EXCEPT ![t] = 0]
  /\ response' = [response EXCEPT ![t] = Nil]
  /\ stages' = [stages EXCEPT ![t] = <<"can_process">>]
  /\ pc' = [pc EXCEPT ![t] = IF can_process(path) THEN "extract" ELSE "skipped"]
  /\ entered' = entered \cup
                  {[thread |-> t, path |-> path,
                    id |-> IF path \in DOMAIN fs THEN fs[path].id ELSE 0]}

\* the loop of process_existing_files calls process_file on the next file
process_next_existing ==
  /\ main = "drain"
  /\ pc["main"] = "idle"
  /\ files # <<>>
  /\ begin_process_file("main", Head(files))
  /\ UNCHANGED <<fs, dirs, processing_log, main, observer, files, listed,
                 events, report, report_calls, drops, vanishes>>

\* the observer thread dispatches a creation event to on_created
on_created ==
  /\ observer = "running"
  /\ pc["observer"] = "idle"
  /\ events # <<>>
  /\ begin_process_file("observer", Head(events))
  /\ events' = Tail(events)
  /\ UNCHANGED <<fs, dirs, processing_log, main, observer, files, listed,
                 report, report_calls, drops, vanishes>>

\* Step 2: extract_content
Extract(t) ==
  /\ pc[t] = "extract"
  /\ LET r == extract_content(fs, file_path[t]) IN
       /\ stages' = [stages EXCEPT ![t] = Append(@, "extract")]
       /\ IF r.raised
            THEN /\ pc' = [pc EXCEPT ![t] = "raised"]
                 /\ UNCHANGED file_data
            ELSE /\ file_data' = [file_data EXCEPT ![t] = r.value]
                 /\ pc' = [pc EXCEPT ![t] = IF "error" \in DOMAIN r.value
                                              THEN "extraction_failed"
                                              ELSE "classify"]
  /\ UNCHANGED <<fs, dirs, processing_log, main, observer, files, listed,
                 events, file_path, analysis, organization_result,
                 remote_calls, response, entered, report, report_calls,
                 drops, vanishes>>

\* Step 3 with a remote call that is made again after a transport failure
classify_step_retry(t, outcomes) ==
  /\ pc[t] = "classify"
  /\ \E outcome \in outcomes :
       LET r == analyze_content(file_data[t], outcome) IN
         /\ remote_calls' = [remote_calls EXCEPT
                               ![t] = IF r.called THEN @ + 1 ELSE @]
         /\ response' = [response EXCEPT
                           ![t] = IF r.called THEN outcome ELSE @]
         /\ IF r.called /\ outcome.kind = "transport_failure"
                        /\ remote_calls[t] < 2
              THEN UNCHANGED <<pc, stages, analysis>>
              ELSE /\ stages' = [stages EXCEPT ![t] = Append(@, "classify")]
                   /\ analysis' = [analysis EXCEPT ![t] = r.value]
                   /\ pc' = [pc EXCEPT ![t] = "organize"]
  /\ UNCHANGED <<fs, dirs, processing_log, main, observer, files, listed,
                 events, file_path, file_data, organization_result, entered,
                 report, report_calls, drops, vanishes>>

\* Step 3: analyze_content
classify_step(t, outcomes) ==
  /\ pc[t] = "classify"
  /\ \E outcome \in outcomes :
       LET r == analyze_content(file_data[t], outcome) IN
         /\ stages' = [stages EXCEPT ![t] = Append(@, "classify")]
         /\ remote_calls' = [remote_calls EXCEPT
                               ![t] = IF r.called THEN @ + 1 ELSE @]
         /\ response' = [response EXCEPT
                           ![t] = IF r.called THEN outcome ELSE @]
         /\ IF r.raised
              THEN /\ pc' = [pc EXCEPT ![t] = "raised"]
                   /\ UNCHANGED analysis
              ELSE /\ analysis' = [analysis EXCEPT ![t] = r.value]
                   /\ pc' = [pc EXCEPT ![t] = "organize"]
  /\ UNCHANGED <<fs, dirs, processing_log, main, observer, files, listed,
                 events, file_path, file_data, organization_result, entered,
                 report, report_calls, drops, vanishes>>

Classify(t) == classify_step(t, PipelineOutcomes)

\* Steps 4 and 5: organize_file and the look at its status
Organize(t) ==
  /\ pc[t] = "organize"
  /\ LET r == organize_file(fs, dirs, processing_log, file_data[t],
                            analysis[t]) IN
       /\ stages' = [stages EXCEPT ![t] = Append(@, "organize")]
       /\ IF r.raised
            THEN /\ pc' = [pc EXCEPT ![t] = "raised"]
                 /\ UNCHANGED <<fs, processing_log, organization_result>>
            ELSE /\ fs' = r.fs
                 /\ processing_log' = r.log
                 /\ organization_result' =
                      [organization_result EXCEPT ![t] = r.result]
                 /\ pc' = [pc EXCEPT
                             ![t] = IF Get(r.result, "status", "") = "success"
                                      THEN "organized"
                                      ELSE "organization_failed"]
  /\ UNCHANGED <<dirs, main, observer, files, listed, events, file_path,
                 file_data, analysis, remote_calls, response, entered, report,
                 report_calls, drops, vanishes>>

Terminal == {"skipped", "extraction_failed", "organized", "organization_failed"}

\* process_file returns in thread t: its locals are gone
end_process_file(t) ==
  /\ pc' = [pc EXCEPT ![t] = "idle"]
  /\ file_path' = [file_path EXCEPT ![t] = Nil]
  /\ file_data' = [file_data EXCEPT ![t] = Nil]
  /\ analysis' = [analysis EXCEPT ![t] = Nil]
  /\ organization_result' = [organization_result EXCEPT ![t] = Nil]
  /\ stages' = [stages EXCEPT ![t] = <<>>]
  /\ remote_calls' = [remote_calls EXCEPT ![t] = 0]
  /\ response' = [response EXCEPT ![t] = Nil]

\* process_file returns to the loop of process_existing_files
return_to_loop ==
  /\ main = "drain"
  /\ pc["main"] \in Terminal
  /\ end_process_file("main")
  /\ files' = Tail(files)
  /\ main' = IF Tail(files) = <<>> THEN "report" ELSE "drain"
  /\ UNCHANGED <<fs, dirs, processing_log, observer, listed, events, entered,
                 report, report_calls, drops, vanishes>>

\* the exception of process_file leaves process_existing_files and
\* start_monitoring: no further file, no report, no observer
raise_from_loop ==
  /\ main = "drain"
  /\ pc["main"] = "raised"
  /\ main' = "crashed"
  /\ UNCHANGED <<fs, dirs, processing_log, observer, files, listed, events,
                 pipeline, entered, report, report_calls, drops, vanishes>>

\* the report at the end of process_existing_files, then observer.start()
report_existing ==
  /\ main = "report"
  /\ report' = generate_report(processing_log)
  /\ report_calls' = report_calls + 1
  /\ main' = "watch"
  /\ observer' = "running"
  /\ UNCHANGED <<fs, dirs, processing_log, files, listed, events, pipeline,
                 entered, drops, vanishes>>

\* process_file returns to on_created, in the observer thread
return_to_observer ==
  /\ observer \in {"running", "stopping"}
  /\ pc["observer"] \in Terminal
  /\ end_process_file("observer")
  /\ UNCHANGED <<fs, dirs, processing_log, main, observer, files, listed,
                 events, entered, report, report_calls, drops, vanishes>>

\* the exception of process_file leaves on_created and ends the observer
\* thread
raise_from_observer ==
  /\ observer \in {"running", "stopping"}
  /\ pc["observer"] = "raised"
  /\ observer' = "dead"
  /\ UNCHANGED <<fs, dirs, processing_log, main, files, listed, events,
                 pipeline, entered, report, report_calls, drops, vanishes>>

Next ==
  \/ \E f \in DropFiles : Drop(f.name, f.body)
  \/ \E path \in DOMAIN fs : Vanish(path)
  \/ process_existing_files
  \/ process_next_existing
  \/ on_created
  \/ \E t \in Threads : Extract(t)
  \/ \E t \in Threads : Classify(t)
  \/ \E t \in Threads : Organize(t)
  \/ return_to_loop
  \/ raise_from_loop
  \/ report_existing
  \/ return_to_observer
  \/ raise_from_observer

Spec == Init /\ [][Next]_vars

(* ---------------- the operator's interrupt ---------------- *)
\* Ctrl+C while start_monitoring is outside its try block, in
\* process_existing_files: KeyboardInterrupt is raised in the main thread,
\* is no Exception, and leaves process_file and start_monitoring
interrupt_outside_try ==
  /\ main \in {"start", "drain", "report"}
  /\ main' = "interrupted"
  /\ pc' = [pc EXCEPT !["main"] = IF @ \in {"extract", "classify", "organize"}
                                    THEN "cancelled" ELSE @]
  /\ UNCHANGED <<fs, dirs, processing_log, observer, files, listed, events,
                 file_path, file_data, analysis, organization_result, stages,
                 remote_calls, response, entered, report, report_calls, drops,
                 vanishes>>

\* Ctrl+C in the loop "while True: time.sleep(1)": observer.stop()
interrupt_in_watch ==
  /\ main = "watch"
  /\ main' = "stopping"
  /\ observer' = IF observer = "running" THEN "stopping" ELSE observer
  /\ UNCHANGED <<fs, dirs, processing_log, files, listed, events, pipeline,
                 entered, report, report_calls, drops, vanishes>>

\* the observer thread, told to stop, leaves its loop once on_created has
\* returned; the events left in the queue are not dispatched
observer_exits ==
  /\ observer = "stopping"
  /\ pc["observer"] = "idle"
  /\ observer' = "stopped"
  /\ UNCHANGED <<fs, dirs, processing_log, main, files, listed, events,
                 pipeline, entered, report, report_calls, drops, vanishes>>

\* observer.join() returns
join_observer ==
  /\ main = "stopping"
  /\ observer \in {"stopped", "dead"}
  /\ main' = "stopped"
  /\ UNCHANGED <<fs, dirs, processing_log, observer, files, listed, events,
                 pipeline, entered, report, report_calls, drops, vanishes>>

NextInterrupt ==
  \/ Next
  \/ interrupt_outside_try
  \/ interrupt_in_watch
  \/ observer_exits
  \/ join_observer

SpecInterrupt == Init /\ [][NextInterrupt]_vars

(* ---------------- analyze_content by itself ---------------- *)
\* the file system that holds just the file f in the input directory
OneFile(f) ==
  [p \in {PathOf("input", f.name)} |-> [id |-> 1, body |-> f.body]]

\* the state in which the main thread is about to call analyze_content on
\* the record data of the file at path
AboutToClassify(path, data) ==
  /\ dirs = setup_directories({})
  /\ processing_log = <<>>
  /\ main = "drain"
  /\ observer = "unstarted"
  /\ files = <<path>>
  /\ listed = {path}
  /\ events = <<>>
  /\ pc = [t \in Threads |-> IF t = "main" THEN "classify" ELSE "idle"]
  /\ file_path = [t \in Threads |-> IF t = "main" THEN path ELSE Nil]
  /\ file_data = [t \in Threads |-> IF t = "main" THEN data ELSE Nil]
  /\ analysis = [t \in Threads |-> Nil]
  /\ organization_result = [t \in Threads |-> Nil]
  /\ stages = [t \in Threads |->
                 IF t = "main" THEN <<"can_process", "extract">> ELSE <<>>]
  /\ remote_calls = [t \in Threads |-> 0]
  /\ response = [t \in Threads |-> Nil]
  /\ entered = {[thread |-> "main", path |-> path, id |-> 1]}
  /\ report = Nil
  /\ report_calls = 0
  /\ drops = 1
  /\ vanishes = 0

\* process_file has extracted a file without error and is about to call
\* analyze_content
InitClassify ==
  \E f \in ClassifyFiles :
    /\ can_process(PathOf("input", f.name))
    /\ fs = OneFile(f)
    /\ ~extract_content(OneFile(f), PathOf("input", f.name)).raised
    /\ "error" \notin
         DOMAIN extract_content(OneFile(f), PathOf("input", f.name)).value
    /\ AboutToClassify(PathOf("input", f.name),
                       extract_content(OneFile(f),
                                       PathOf("input", f.name)).value)

ClassifyAny == \E t \in Threads : classify_step(t, RemoteOutcomes)

SpecClassify == InitClassify /\ [][ClassifyAny]_vars

(* ---------------- _create_default_analysis by itself ---------------- *)
\* file names of every branch of _create_default_analysis: the supported
\* types, a spreadsheet, a type that is none of them, and two names of one
\* type
FallbackNames ==
  { Name("a", <<>>, ".TXT"), Name("r", <<>>, ".pdf"), Name("r", <<1>>, ".pdf"),
    Name("b", <<>>, ".CSV"), Name("c", <<>>, ".json"),
    Name("d", <<>>, ".docx"), Name("e", <<>>, ".JPG"),
    Name("h", <<>>, ".jpeg"), Name("photo", <<>>, ".png"),
    Name("f", <<>>, ".gif"), Name("g", <<>>, ".bmp"),
    Name("s", <<>>, ".xlsx"), Name("n", <<>>, ".exe") }

\* analyze_content is about to be called on a record with one of the names
\* and a content that is empty, blank or text
InitFallback ==
  \E n \in FallbackNames, content \in {"", "\n", "text"} :
    /\ fs = OneFile([name |-> n, body |-> "text"])
    /\ AboutToClassify(PathOf("input", n),
                       [base_result(PathOf("input", n))
                          EXCEPT !.content = content])

SpecFallback == InitFallback /\ [][ClassifyAny]_vars

(* ---------------- properties ---------------- *)
StageOrder == <<"can_process", "extract", "classify", "organize">>

\* the category a log entry was filed under
EntryCategory(e) == e.organization.category.v

\* the number of entries before the i-th that have its file name and category
EarlierSame(log, i) ==
  Cardinality({ j \in 1..(i - 1) :
                  /\ log[j].file = log[i].file
                  /\ EntryCategory(log[j]) = EntryCategory(log[i]) })

\* C1 as stated: the k-th file with base name name.ext organized into a
\* category lands at name.ext for k = 0 and at name_k.ext for k > 0, and the
\* destination paths of the organized files are pairwise distinct.
C1_KthFileGetsSuffixK ==
  /\ \A i \in 1..Len(processing_log) :
       LET e == processing_log[i]
           k == EarlierSame(processing_log, i)
       IN  e.organization.new_path =
             PathOf(EntryCategory(e),
                    IF k = 0 THEN e.file ELSE Suffixed(e.file, k))
  /\ \A i, j \in 1..Len(processing_log) :
       i # j => processing_log[i].organization.new_path
                  # processing_log[j].organization.new_path

\* C1 amended: no step overwrites or removes a file under the output root;
\* a file that organize_file moves lands, with its content, at a path that
\* was free, named name.ext or name_k.ext with name.ext and every name_j.ext
\* for 0 < j < k taken in that directory; the destination paths of the
\* organized files are pairwise distinct.
C1_FirstFreeName ==
  [][ /\ \A p \in DOMAIN fs :
           p.dir # "input" => p \in DOMAIN fs' /\ fs'[p] = fs[p]
      /\ Len(processing_log') > Len(processing_log) =>
           LET e == processing_log'[Len(processing_log')]
               src == e.organization.original_path
               dst == e.organization.new_path
               taken(n) == PathOf(dst.dir, n) \in DOMAIN fs
           IN  /\ dst \notin DOMAIN fs
               /\ dst \in DOMAIN fs'
               /\ fs'[dst] = fs[src]
               /\ dst.dir = EntryCategory(e)
               /\ \/ dst.name = e.file
                  \/ \E k \in 1..(Cardinality(DOMAIN fs) + 1) :
                       /\ dst.name = Suffixed(e.file, k)
                       /\ taken(e.file)
                       /\ \A j \in 1..(k - 1) : taken(Suffixed(e.file, j))
      /\ \A i, j \in 1..Len(processing_log') :
           i # j => processing_log'[i].organization.new_path
                      # processing_log'[j].organization.new_path
    ]_vars

\* two files of one base name were organized into one category, the second
\* one under the suffix _1
C1_TwoSameName ==
  \E i, j \in 1..Len(processing_log) :
    /\ i < j
    /\ processing_log[i].file = processing_log[j].file
    /\ EntryCategory(processing_log[i]) = EntryCategory(processing_log[j])
    /\ processing_log[j].organization.new_path.name
         = Suffixed(processing_log[j].file, 1)
    /\ processing_log[i].organization.new_path \in DOMAIN fs
    /\ processing_log[j].organization.new_path \in DOMAIN fs

\* C2 as stated: no error leaves process_file, so neither the batch run nor
\* the observer is ever ended by one.
C2_NoErrorLeavesProcessFile ==
  /\ \A t \in Threads : pc[t] # "raised"
  /\ main # "crashed"
  /\ observer # "dead"

\* the move of the current file of thread t failed because the source was
\* gone
SourceVanished(t) ==
  /\ pc[t] = "organization_failed"
  /\ organization_result[t].error.filename = file_data[t].file_path

\* C3 as stated: a file that was extracted and classified by the fallback
\* (the remote classifier being unreachable) and is still in place ends as
\* organized, under the directory of its fallback category, with one new
\* log entry for it.
C3_FallbackEndsOrganized ==
  \A t \in Threads :
    ( /\ pc[t] \in {"organized", "organization_failed"}
      /\ "note" \in DOMAIN analysis[t]
      /\ ~SourceVanished(t) )
    => /\ pc[t] = "organized"
       /\ organization_result[t].new_path.dir
            = create_default_analysis(file_data[t].file_name,
                                      file_data[t].file_type, "").category.v
       /\ organization_result[t].new_path \in DOMAIN fs
       /\ processing_log # <<>>
       /\ \E i \in 1..Len(processing_log) :
            processing_log[i].organization = organization_result[t]

\* C4 as stated: once the organizer is constructed the output root has a
\* directory named after each category of the fixed set, and reports;
\* running setup_directories again changes nothing.
C4_CategoryDirectoriesExist ==
  /\ Categories \cup {"reports"} \subseteq dirs
  /\ setup_directories(dirs) = dirs

\* C5 as stated: the category of every classification analyze_content
\* returns is a member of the fixed set.
C5_CategoryInFixedSet ==
  \A t \in Threads :
    analysis[t] # Nil =>
      /\ "category" \in DOMAIN analysis[t]
      /\ analysis[t].category.t = "str"
      /\ analysis[t].category.v \in Categories

RECURSIVE SumCounts(_)
SumCounts(counts) ==
  IF DOMAIN counts = {}
    THEN 0
    ELSE LET c == CHOOSE x \in DOMAIN counts : TRUE
         IN  counts[c] + SumCounts([d \in DOMAIN counts \ {c} |-> counts[d]])

\* C6: the report generate_report builds from a non-empty log has
\* total_files = length of files = length of the log, and its per-category
\* counts add up to total_files.
C6_ReportCounts ==
  [][ (main = "report" /\ main' # "report" /\ processing_log # <<>>) =>
        /\ report'.written
        /\ report'.total_files = Len(report'.files)
        /\ Len(report'.files) = Len(processing_log)
        /\ SumCounts(report'.categories) = report'.total_files
    ]_vars

\* a report that counts two files under one category
C6_ReportWithRepeatedCategory ==
  /\ report # Nil
  /\ report.written
  /\ \E c \in DOMAIN report.categories : report.categories[c] >= 2

\* C7 as stated: extract_content never raises, and a record with the error
\* field has the empty content and the empty metadata.
C7_ExtractNeverRaises ==
  \A t \in Threads :
    /\ ~(pc[t] = "raised" /\ stages[t] = <<"can_process", "extract">>)
    /\ (file_data[t] # Nil /\ "error" \in DOMAIN file_data[t]) =>
         file_data[t].content = "" /\ file_data[t].metadata = {}

\* C8: analyze_content never lets an exception out: once called, for every
\* outcome of the remote call, process_file holds a classification and
\* goes on to organize.
C8_ClassifyReturns ==
  \A t \in Threads :
    (Len(stages[t]) >= 3 /\ stages[t][3] = "classify") =>
      /\ pc[t] # "raised"
      /\ analysis[t] # Nil
      /\ pc[t] = "organize"

\* the remote answer was JSON but not an object: the fallback was returned
C8_NonObjectAnswerAbsorbed ==
  \E t \in Threads :
    /\ pc[t] = "organize"
    /\ "note" \in DOMAIN analysis[t]
    /\ analysis[t].note[2] = "AttributeError"

\* C9 as stated: a run of process_file is at a stage or in one of the four
\* terminal states, its stages are in the order can_process, extract,
\* classify, organize, a skipped file was not extracted, classified or
\* moved, and a file whose extraction failed was not classified or moved.
C9_PipelineStateMachine ==
  \A t \in Threads :
    /\ pc[t] \in {"idle", "extract", "classify", "organize"} \cup Terminal
    /\ stages[t] = SubSeq(StageOrder, 1, Len(stages[t]))
    /\ pc[t] = "skipped" =>
         /\ stages[t] = <<"can_process">>
         /\ file_data[t] = Nil /\ analysis[t] = Nil
         /\ organization_result[t] = Nil
    /\ pc[t] = "extraction_failed" =>
         /\ stages[t] = <<"can_process", "extract">>
         /\ analysis[t] = Nil /\ organization_result[t] = Nil

\* C10: when the move cannot be made (the source is gone or the destination
\* directory does not exist) organize_file returns status failed with an
\* error and no new_path and leaves the file system and the log as they
\* were; every result has the error field exactly when its status is failed.
C10_FailedMoveChangesNothing ==
  [][ \A t \in Threads :
        (pc[t] = "organize" /\ pc'[t] # "organize" /\ pc'[t] # "raised") =>
          /\ ( \/ file_data[t].file_path \notin DOMAIN fs
               \/ Get(analysis[t], "category", Str("other")).v \notin dirs ) =>
               /\ organization_result'[t].status = "failed"
               /\ "error" \in DOMAIN organization_result'[t]
               /\ "new_path" \notin DOMAIN organization_result'[t]
               /\ fs' = fs
               /\ processing_log' = processing_log
          /\ ("error" \in DOMAIN organization_result'[t])
               <=> (organization_result'[t].status = "failed")
    ]_vars

\* a move failed and the file is still where it was
C10_FailedMoveLeftFile ==
  \E t \in Threads :
    /\ pc[t] = "organization_failed"
    /\ organization_result[t].status = "failed"
    /\ file_path[t] \in DOMAIN fs

\* C11 as stated: an operator interrupt never cancels a file in flight: a
\* file that has started process_file, in the drain of the existing files or
\* in the watch phase, is at a terminal state (or idle again) before the
\* interrupt ends start_monitoring.
C11_InterruptNeverCancels ==
  /\ \A t \in Threads : pc[t] # "cancelled"
  /\ main \in {"interrupted", "stopped"} =>
       \A t \in Threads : pc[t] \notin {"extract", "classify", "organize"}

\* C12: at most one file is inside the pipeline at any time: a call of
\* process_file begins only when no thread is inside process_file, in the
\* drain of the existing files as in the handling of creation events, and
\* the log is changed only by the one thread that is organizing.
C12_OneFileInPipeline ==
  [][ /\ Cardinality({ t \in Threads : pc'[t] # "idle" }) <= 1
      /\ \A t \in Threads :
           (pc[t] = "idle" /\ pc'[t] # "idle") =>
             \A u \in Threads : pc[u] = "idle"
      /\ processing_log' # processing_log =>
           \E t \in Threads :
             /\ pc[t] = "organize"
             /\ \A u \in Threads \ {t} : pc[u] = "idle"
    ]_vars

\* a file of the drain has been through the pipeline and a file announced by
\* a creation event is in it
C12_BothThreadsProcessed ==
  /\ \E e \in entered : e.thread = "main"
  /\ pc["observer"] \in {"extract", "classify", "organize"}
  /\ processing_log # <<>>

\* C13: the processing log is append-only: every step leaves it as it was
\* or adds one entry at its end, for the file being organized, the entries
\* it had keeping their values and places; generate_report leaves it as it
\* was.
C13_LogAppendOnly ==
  [][ /\ \/ processing_log' = processing_log
         \/ /\ Len(processing_log') = Len(processing_log) + 1
            /\ SubSeq(processing_log', 1, Len(processing_log)) = processing_log
            /\ \E t \in Threads :
                 /\ pc[t] = "organize"
                 /\ processing_log'[Len(processing_log')].file
                      = file_path[t].name
                 /\ processing_log'[Len(processing_log')].organization
                      = organization_result'[t]
      /\ main = "report" => processing_log' = processing_log
    ]_vars

\* two files with different names were organized one after the other and a
\* report was built from the log
C13_TwoEntriesAndReport ==
  /\ Len(processing_log) >= 2
  /\ processing_log[1].file # processing_log[2].file
  /\ report # Nil
  /\ report.written

\* the classification a is the type-based fallback for the extracted file fd
IsFallbackFor(a, fd) ==
  \E reason \in {"No content extracted", "APIConnectionError"} :
    a = create_default_analysis(fd.file_name, fd.file_type, reason)

\* C14: the remote classification is called at most once per file, and not
\* at all when the extracted content is empty after trimming; when the call
\* fails or the content is empty, the classify step yields the type-based
\* fallback and the pipeline goes on to organize.
C14_RemoteCalledAtMostOnce ==
  [][ \A t \in Threads :
        /\ remote_calls'[t] <= 1
        /\ (pc[t] = "classify" /\ pc'[t] # "classify") =>
             /\ strip(file_data[t].content) = "" =>
                  /\ remote_calls'[t] = 0
                  /\ response'[t] = Nil
             /\ ( \/ strip(file_data[t].content) = ""
                  \/ response'[t] = [kind |-> "transport_failure"] ) =>
                  /\ pc'[t] = "organize"
                  /\ IsFallbackFor(analysis'[t], file_data[t])
    ]_vars

\* a file whose remote call failed and a file with blank content have both
\* been classified by the fallback and organized
C14_BothFallbackCases ==
  \E i, j \in 1..Len(processing_log) :
    /\ "note" \in DOMAIN processing_log[i].analysis
    /\ "note" \in DOMAIN processing_log[j].analysis
    /\ processing_log[i].analysis.note[2] = "APIConnectionError"
    /\ processing_log[j].analysis.note[2] = "No content extracted"

\* the reasons analyze_content gives _create_default_analysis
FallbackReasons == {"No content extracted", "APIConnectionError", "AttributeError"}

\* C15: the fallback classification depends on the file name, the file
\* type and the reason alone: image extensions give images, .pdf document,
\* .csv and .xlsx data, anything else other with the action 'Manual review
\* recommended'; priority is medium, the note carries the reason, and
\* category, tags and action_needed are the same whatever the reason.
C15_FallbackByType ==
  \A t \in Threads :
    "note" \in DOMAIN analysis[t] =>
      LET a == analysis[t]
          ft == file_data[t].file_type
      IN  /\ a.category =
               Str(IF ft \in {".jpg", ".jpeg", ".png", ".gif", ".bmp"}
                     THEN "images"
                     ELSE IF ft = ".pdf" THEN "document"
                     ELSE IF ft \in {".csv", ".xlsx"} THEN "data"
                     ELSE "other")
          /\ a.category = Str("other") =>
               a.action_needed = "Manual review recommended"
          /\ a.priority = "medium"
          /\ a.note[1] = "Default analysis used due to: "
          /\ a.note[2] \in FallbackReasons
          /\ \A reason \in FallbackReasons :
               LET b == create_default_analysis(file_data[t].file_name, ft,
                                                reason)
               IN  /\ b.category = a.category
                   /\ b.tags = a.tags
                   /\ b.action_needed = a.action_needed
                   /\ (reason = a.note[2]) => b = a

\* the fallback classified a spreadsheet as data after a failed remote call
C15_SpreadsheetFallback ==
  \E t \in Threads :
    /\ "note" \in DOMAIN analysis[t]
    /\ file_data[t].file_type = ".xlsx"
    /\ analysis[t].note[2] = "APIConnectionError"
    /\ analysis[t].category = Str("data")

\* C16: generate_report, called while the log is empty, returns the fixed
\* no-files message and writes no report file, and leaves the file system,
\* the directories and the log as they were.
C16_EmptyLogNoReport ==
  [][ (main = "report" /\ main' # "report" /\ processing_log = <<>>) =>
        /\ report' = NoReport
        /\ report'.summary = <<"No files processed yet.">>
        /\ ~report'.written
        /\ fs' = fs
        /\ dirs' = dirs
        /\ processing_log' = <<>>
    ]_vars

\* the drain found files, none of them was organized, and generate_report
\* has been called
C16_ReportCalledOnEmptyLog ==
  /\ report_calls = 1
  /\ listed # {}
  /\ processing_log = <<>>
  /\ report # Nil
  /\ ~report.written

\* C17 as stated: organize_file, given a file that is in place and a
\* classification whose category names no directory under the output root,
\* creates the directory, moves the file into it and returns status success.
C17_DirectoryCreatedOnDemand ==
  [][ \A t \in Threads :
        ( /\ pc[t] = "organize"
          /\ pc'[t] \notin {"organize", "raised"}
          /\ file_data[t].file_path \in DOMAIN fs
          /\ Get(analysis[t], "category", Str("other")).t = "str"
          /\ Get(analysis[t], "category", Str("other")).v \notin dirs )
        => /\ Get(analysis[t], "category", Str("other")).v \in dirs'
           /\ organization_result'[t].status = "success"
           /\ organization_result'[t].new_path.dir
                = Get(analysis[t], "category", Str("other")).v
           /\ organization_result'[t].new_path \in DOMAIN fs'
    ]_vars

\* C18 as stated, for a batch of at least one file: once
\* process_existing_files is over, every file it found has entered
\* process_file in the main thread and generate_report has been called
\* once, after the last file reached a terminal state; the handling of
\* creation events never calls generate_report.
C18_BatchProcessesAllThenReports ==
  /\ (listed # {} /\ main \notin {"start", "drain", "report"}) =>
       /\ \A p \in listed :
            \E e \in entered : e.thread = "main" /\ e.path = p
       /\ report_calls = 1
  /\ report_calls <= 1
  /\ main = "report" => (files = <<>> /\ pc["main"] = "idle")

\* C19: the extraction of an image file whose decoding fails does not end
\* in extraction_failed: the record has no outer error field, a non-empty
\* content and the key error in its metadata, and process_file goes on to
\* classify and from there to organize.
C19_CorruptImageGoesOn ==
  [][ \A t \in Threads :
        /\ ( /\ pc[t] = "extract"
             /\ pc'[t] # "extract"
             /\ file_path[t] \in DOMAIN fs
             /\ lower(file_path[t].name.ext) \in image_formats
             /\ fs[file_path[t]].body = "corrupt" )
           => /\ pc'[t] = "classify"
              /\ "error" \notin DOMAIN file_data'[t]
              /\ file_data'[t].content # ""
              /\ "error" \in file_data'[t].metadata
        /\ ( /\ pc[t] = "classify"
             /\ pc'[t] # "classify"
             /\ "error" \in file_data[t].metadata )
           => /\ pc'[t] = "organize"
              /\ analysis'[t] # Nil
        /\ ( /\ pc[t] = "organize"
             /\ pc'[t] # "organize"
             /\ "error" \in file_data[t].metadata )
           => stages'[t] = StageOrder
    ]_vars

\* a corrupt image has been through extract, classify and organize
C19_CorruptImageOrganizeStage ==
  \E t \in Threads :
    /\ file_data[t] # Nil
    /\ "error" \in file_data[t].metadata
    /\ "error" \notin DOMAIN file_data[t]
    /\ stages[t] = StageOrder
    /\ pc[t] \in Terminal

\* C20 as stated: every supported file created in the input directory after
\* the call of start_monitoring enters process_file: when the agent is
\* watching, with no event waiting and no thread inside process_file, no
\* supported file is in the input directory that process_file was never
\* called on.
C20_EveryCreatedFileProcessed ==
  ( /\ main = "watch"
    /\ observer = "running"
    /\ events = <<>>
    /\ \A t \in Threads : pc[t] = "idle" )
  => \A p \in DOMAIN fs :
       (p.dir = "input" /\ can_process(p)) =>
         \E e \in entered : e.path = p /\ e.id = fs[p].id

\* C21: the log grows by one entry exactly at the calls of organize_file
\* that return status success, and at no other step, so its length is the
\* number of such calls; every entry carries an organization result with
\* status success, and the new_path values of the entries are pairwise
\* distinct.
C21_LogCountsSuccesses ==
  [][ /\ \A t \in Threads :
           (pc[t] = "organize" /\ pc'[t] # "organize") =>
             IF pc'[t] # "raised"
                  /\ organization_result'[t].status = "success"
               THEN /\ Len(processing_log') = Len(processing_log) + 1
                    /\ processing_log'[Len(processing_log')].organization
                         = organization_result'[t]
               ELSE Len(processing_log') = Len(processing_log)
      /\ (\A t \in Threads : pc[t] # "organize" \/ pc'[t] = "organize") =>
           Len(processing_log') = Len(processing_log)
      /\ \A i \in 1..Len(processing_log') :
           /\ processing_log'[i].organization.status = "success"
           /\ "new_path" \in DOMAIN processing_log'[i].organization
      /\ \A i, j \in 1..Len(processing_log') :
           i # j => processing_log'[i].organization.new_path
                      # processing_log'[j].organization.new_path
    ]_vars

\* two calls of organize_file succeeded and a third one has just failed
C21_TwoLoggedOneFailed ==
  /\ Len(processing_log) = 2
  /\ \E t \in Threads :
       /\ pc[t] = "organization_failed"
       /\ organization_result[t].status = "failed"

\* the identities of the files of a file system
FileIds(f) == { f[p].id : p \in DOMAIN f }

\* C22 as stated: when process_file has ended for a file, the file is at its
\* original path if the terminal state is skipped, extraction_failed or
\* organization_failed, and at the returned new_path, its original path
\* being empty, if the terminal state is organized.
C22_FileAtOnePlace ==
  \A t \in Threads :
    /\ pc[t] \in {"skipped", "extraction_failed", "organization_failed"} =>
         file_path[t] \in DOMAIN fs
    /\ pc[t] = "organized" =>
         /\ organization_result[t].new_path \in DOMAIN fs
         /\ file_path[t] \notin DOMAIN fs

\* C22, amended: no step of the pipeline removes or copies a file: only the
\* environment makes a file disappear, no two paths hold the same file, a
\* step that ends in skipped, extraction_failed or organization_failed
\* leaves the file system as it was, and a step that ends in organized has
\* moved the file, unchanged, from its original path to the returned
\* new_path, which was free.
C22_PipelineKeepsEveryFile ==
  [][ /\ vanishes' = vanishes => FileIds(fs) \subseteq FileIds(fs')
      /\ \A p, q \in DOMAIN fs' : p # q => fs'[p].id # fs'[q].id
      /\ \A t \in Threads :
           ( /\ pc'[t] # pc[t]
             /\ pc'[t] \in {"skipped", "extraction_failed",
                            "organization_failed"} )
           => fs' = fs
      /\ \A t \in Threads :
           (pc[t] = "organize" /\ pc'[t] = "organized") =>
             LET r == organization_result'[t] IN
               /\ r.original_path = file_path[t]
               /\ r.original_path \in DOMAIN fs
               /\ r.new_path \notin DOMAIN fs
               /\ DOMAIN fs' = (DOMAIN fs \ {r.original_path}) \cup {r.new_path}
               /\ fs'[r.new_path] = fs[r.original_path]
               /\ \A p \in DOMAIN fs' \ {r.new_path} : fs'[p] = fs[p]
    ]_vars

\* a file has just been organized under a suffixed name while a file
\* whose processing failed is still in the input directory
C22_MovedBesideFailed ==
  \E t \in Threads :
    /\ pc[t] = "organized"
    /\ organization_result[t].new_path \in DOMAIN fs
    /\ organization_result[t].new_path.name # file_path[t].name
    /\ file_path[t] \notin DOMAIN fs
    /\ \E p \in DOMAIN fs : p.dir = "input"

====
